---- MODULE Spec2Model ----
(***************************************************************************)
(* Model of the three generated end-to-end scripts of testsprite_tests     *)
(* (TC006, TC007, TC012).  Every script is one coroutine run_test():       *)
(*   try:  start session, launch browser, new context, new page, goto,     *)
(*         secondary DOM-ready waits, step sequence, assertions, sleep     *)
(*   finally: close context, close browser, stop session.                  *)
(* The browser-automation library and the application under test are the   *)
(* environment: every awaited call either returns or raises, and every     *)
(* probe returns a value drawn from a small set.                           *)
(***************************************************************************)
EXTENDS Integers, Sequences, FiniteSets, TLC

\* ------------------------------------------------------------- bounds ----
MaxFrames == 2      \* page.frames holds 1..MaxFrames frames (main frame included)
MaxMatches == 2     \* a structural path matches 0..MaxMatches elements

\* -------------------------------------------------- program constants ----
GotoTimeout == 10000
LoadStateTimeout == 3000
DefaultTimeout == 5000
ClickTimeout == 5000
LoadThreshold == 3000
MobileWidth == 390
MobileHeight == 844

Scripts == {"TC006", "TC007", "TC012"}

\* names bound at module level or as locals of run_test()
BoundNames == {"asyncio", "async_api", "run_test", "pw", "browser", "context",
               "page", "frame", "elem"}

NameDefined(name) == name \in BoundNames

\* ------------------------------------------------------ step sequences ---
Click(l) == [kind |-> "click", line |-> l, timeout |-> ClickTimeout, uses |-> "elem"]
Fill(l)  == [kind |-> "fill",  line |-> l, timeout |-> 0, uses |-> "elem"]
Nav(l)   == [kind |-> "goto",  line |-> l, timeout |-> GotoTimeout, uses |-> "page"]
Wheel(l, name) == [kind |-> "wheel", line |-> l, timeout |-> 0, uses |-> name]

TC006Steps ==
  << Click(51), Click(57), Click(63), Click(69), Click(75),
     Wheel(79, "window"),
     Click(85), Click(91), Click(97), Click(103), Click(109) >>

TC007Steps ==
  << Click(51), Fill(57), Fill(62), Click(67), Click(73), Fill(79),
     Click(84), Click(90), Click(96), Click(102), Click(108), Click(114) >>

TC012Steps ==
  << Nav(49), Nav(53), Click(59), Fill(64), Nav(68), Nav(72), Fill(78), Click(83) >>

Steps(s) ==
  CASE s = "TC006" -> TC006Steps
    [] s = "TC007" -> TC007Steps
    [] s = "TC012" -> TC012Steps

\* ---------------------------------------------------------- assertions ---
Chk(k, l) == [kind |-> k, line |-> l]

TC006Asserts == << Chk("false", 112) >>

TC007Asserts ==
  << Chk("bool", 120), Chk("class", 123), Chk("bool", 127), Chk("bool", 128),
     Chk("bool", 131), Chk("bool", 132), Chk("bool", 135) >>

TC012Asserts ==
  << Chk("viewport", 88), Chk("bool", 90), Chk("bool", 91), Chk("bool", 92),
     Chk("bool", 95), Chk("count", 98), Chk("load", 101) >>

Asserts(s) ==
  CASE s = "TC006" -> TC006Asserts
    [] s = "TC007" -> TC007Asserts
    [] s = "TC012" -> TC012Asserts

\* strings are sequences of characters
Active == << "a", "c", "t", "i", "v", "e" >>

IsSubstring(sub, s) ==
  \E k \in 0..(Len(s) - Len(sub)) : SubSeq(s, k + 1, k + Len(sub)) = sub

\* get_attribute('class') returns None or a string
NoAttr == [present |-> FALSE, value |-> << >>]
Attr(v) == [present |-> TRUE, value |-> v]

ClassValues ==
  { NoAttr, Attr(<< >>), Attr(<< "b", "t", "n" >>), Attr(Active),
    Attr(<< "i", "n" >> \o Active), Attr(<< "b", "t", "n", " " >> \o Active),
    Attr(<< "a", "c", "t", "i", "v" >>) }

\* variant: the class attribute is only required to be non-empty
ClassOkNonEmpty(c) == c.present /\ c.value # << >>

\* animation_active and 'active' in animation_active
ClassOk(c) == c.present /\ c.value # << >> /\ IsSubstring(Active, c.value)

\* viewport['width'] == 390 and viewport['height'] == 844
ViewportOk(vp) == vp.width = MobileWidth /\ vp.height = MobileHeight

\* performance.timing.loadEventEnd - performance.timing.navigationStart
LoadTime(t) == t.loadEventEnd - t.navigationStart

\* variant: the threshold itself is accepted
LoadTimeOkInclusive(t) == t <= LoadThreshold

\* load_time < 3000
LoadTimeOk(t) == t < LoadThreshold

Viewports == { [width |-> 1280, height |-> 720],
               [width |-> MobileWidth, height |-> MobileHeight] }

NoViewport == [width |-> 0, height |-> 0]

Timings ==
  { [navigationStart |-> 1000, loadEventEnd |-> e] : e \in {0, 1500, 3999, 4000, 4001} }

\* values a probe of the given kind can return
Observations(kind) ==
  CASE kind = "bool"  -> BOOLEAN
    [] kind = "class" -> ClassValues
    [] kind = "count" -> 0..MaxMatches
    [] kind = "load"  -> Timings
    [] OTHER          -> {FALSE}

\* probes that await the browser can raise; assert False and the viewport
\* comparison are evaluated locally
Awaits(kind) == kind \in {"bool", "class", "count", "load"}

\* the asserted condition
Holds(kind, obs, vp) ==
  CASE kind = "false"    -> FALSE
    [] kind = "bool"     -> obs = TRUE
    [] kind = "class"    -> ClassOk(obs)
    [] kind = "viewport" -> ViewportOk(vp)
    [] kind = "count"    -> obs > 0
    [] kind = "load"     -> LoadTimeOk(LoadTime(obs))

\* ------------------------------------------------------------ handlers ---
\* variant: the initial navigation is wrapped like the secondary waits
SwallowsGoto(op) == op \in {"goto", "wait_main", "wait_frame"}

\* variant: only the main-page wait is wrapped
SwallowsMainOnly(op) == op = "wait_main"

\* except async_api.Error: pass   wraps only the secondary DOM-ready waits
Swallows(op) == op \in {"wait_main", "wait_frame"}

\* variant: the browser is never closed
CleanupOrderNoBrowser == << "context", "pw" >>

\* variant: the browser is closed before the context
CleanupOrderBrowserFirst == << "browser", "context", "pw" >>

\* the finally block: context.close(), browser.close(), pw.stop()
CleanupOrder == << "context", "browser", "pw" >>

\* variant: a navigation step of the sequence switches to the mobile viewport
ViewportAfterStepEmulating(step, vp) ==
  IF step.kind = "goto" THEN [width |-> MobileWidth, height |-> MobileHeight] ELSE vp

\* effect of a step on the page's viewport: no step calls set_viewport_size
ViewportAfterStep(step, vp) == vp

Resources == {"pw", "browser", "context", "page"}

VARIABLES
  script,      \* which of the three scripts runs
  pc,          \* position in run_test()
  idx,         \* index of the frame / step / assertion / cleanup statement
  locals,      \* pw, browser, context: "None" or "set"
  created,     \* per resource: number of creations
  released,    \* per resource: number of releases
  exc,         \* origin of the exception now propagating, or "none"
  trace,       \* operations executed so far
  nframes,     \* length of page.frames when the loop started
  viewport,    \* page.viewport_size
  viewport0,   \* viewport the context was created with
  defaultTimeout

vars == << script, pc, idx, locals, created, released, exc, trace, nframes,
           viewport, viewport0, defaultTimeout >>

Ev(op, line, out, obs) == [op |-> op, line |-> line, out |-> out, obs |-> obs]

Held(r) == created[r] > released[r]

Init ==
  /\ script \in Scripts
  /\ pc = "start"
  /\ idx = 0
  /\ locals = [r \in {"pw", "browser", "context"} |-> "None"]
  /\ created = [r \in Resources |-> 0]
  /\ released = [r \in Resources |-> 0]
  /\ exc = "none"
  /\ trace = << >>
  /\ nframes = 0
  /\ viewport = NoViewport
  /\ viewport0 = NoViewport
  /\ defaultTimeout = 0

\* an exception leaves the try body and enters the finally block
Raise(origin) ==
  /\ exc' = origin
  /\ pc' = "finally"
  /\ idx' = 1

\* pw = await async_api.async_playwright().start()
Start ==
  /\ pc = "start"
  /\ \E ok \in BOOLEAN :
       /\ trace' = Append(trace, Ev("start", 11, IF ok THEN "ok" ELSE "raise", ok))
       /\ IF ok
            THEN /\ locals' = [locals EXCEPT !["pw"] = "set"]
                 /\ created' = [created EXCEPT !["pw"] = @ + 1]
                 /\ pc' = "launch"
                 /\ UNCHANGED << idx, exc >>
            ELSE /\ Raise("start")
                 /\ UNCHANGED << locals, created >>
  /\ UNCHANGED << script, released, nframes, viewport, viewport0, defaultTimeout >>

\* browser = await pw.chromium.launch(...)
Launch ==
  /\ pc = "launch"
  /\ \E ok \in BOOLEAN :
       /\ trace' = Append(trace, Ev("launch", 14, IF ok THEN "ok" ELSE "raise", ok))
       /\ IF ok
            THEN /\ locals' = [locals EXCEPT !["browser"] = "set"]
                 /\ created' = [created EXCEPT !["browser"] = @ + 1]
                 /\ pc' = "new_context"
                 /\ UNCHANGED << idx, exc >>
            ELSE /\ Raise("launch")
                 /\ UNCHANGED << locals, created >>
  /\ UNCHANGED << script, released, nframes, viewport, viewport0, defaultTimeout >>

\* context = await browser.new_context(); context.set_default_timeout(5000)
NewContext ==
  /\ pc = "new_context"
  /\ \E ok \in BOOLEAN, vp \in Viewports :
       /\ trace' = Append(trace, Ev("new_context", 25, IF ok THEN "ok" ELSE "raise", ok))
       /\ IF ok
            THEN /\ locals' = [locals EXCEPT !["context"] = "set"]
                 /\ created' = [created EXCEPT !["context"] = @ + 1]
                 /\ viewport0' = vp
                 /\ defaultTimeout' = DefaultTimeout
                 /\ pc' = "new_page"
                 /\ UNCHANGED << idx, exc >>
            ELSE /\ Raise("new_context")
                 /\ UNCHANGED << locals, created, viewport0, defaultTimeout >>
  /\ UNCHANGED << script, released, nframes, viewport >>

\* page = await context.new_page()
NewPage ==
  /\ pc = "new_page"
  /\ \E ok \in BOOLEAN :
       /\ trace' = Append(trace, Ev("new_page", 29, IF ok THEN "ok" ELSE "raise", ok))
       /\ IF ok
            THEN /\ created' = [created EXCEPT !["page"] = @ + 1]
                 /\ viewport' = viewport0
                 /\ pc' = "goto"
                 /\ UNCHANGED << idx, exc >>
            ELSE /\ Raise("new_page")
                 /\ UNCHANGED << created, viewport >>
  /\ UNCHANGED << script, locals, released, nframes, viewport0, defaultTimeout >>

\* await page.goto("http://localhost:5000", wait_until="commit", timeout=10000)
Goto ==
  /\ pc = "goto"
  /\ \E ok \in BOOLEAN :
       /\ trace' = Append(trace, Ev("goto", 32, IF ok THEN "ok" ELSE "raise", GotoTimeout))
       /\ IF ok \/ Swallows("goto")
            THEN /\ pc' = "wait_main"
                 /\ UNCHANGED << idx, exc >>
            ELSE Raise("goto")
  /\ UNCHANGED << script, locals, created, released, nframes, viewport, viewport0,
                  defaultTimeout >>

\* try: await page.wait_for_load_state("domcontentloaded", timeout=3000)
\* except async_api.Error: pass;  then page.frames is enumerated
WaitMain ==
  /\ pc = "wait_main"
  /\ \E ok \in BOOLEAN, n \in 1..MaxFrames :
       /\ trace' = Append(trace, Ev("wait_main", 36, IF ok THEN "ok" ELSE "raise",
                                    LoadStateTimeout))
       /\ IF ok \/ Swallows("wait_main")
            THEN /\ pc' = "wait_frame"
                 /\ idx' = 1
                 /\ nframes' = n
                 /\ UNCHANGED exc
            ELSE /\ Raise("wait_main")
                 /\ UNCHANGED nframes
  /\ UNCHANGED << script, locals, created, released, viewport, viewport0, defaultTimeout >>

\* for frame in page.frames: try: await frame.wait_for_load_state(...) except: pass
WaitFrame ==
  /\ pc = "wait_frame"
  /\ \E ok \in BOOLEAN :
       /\ trace' = Append(trace, Ev("wait_frame", 43, IF ok THEN "ok" ELSE "raise", idx))
       /\ IF ok \/ Swallows("wait_frame")
            THEN /\ IF idx < nframes
                      THEN pc' = "wait_frame" /\ idx' = idx + 1
                      ELSE pc' = "step" /\ idx' = 1
                 /\ UNCHANGED exc
            ELSE Raise("wait_frame")
  /\ UNCHANGED << script, locals, created, released, nframes, viewport, viewport0,
                  defaultTimeout >>

\* bounded wait of a step's action: click(timeout=5000) and goto(timeout=10000)
\* carry their own bound, fill() falls back to the context's default timeout
ActionTimeout(step, dflt) == IF step.kind = "fill" THEN dflt ELSE step.timeout

\* variant: the action does not wait for a match
ActionSucceedsUnmatched(matches, actionable) == actionable

\* elem = frame.locator(path).nth(0): the action needs a first match that
\* becomes actionable within the bounded wait
ActionSucceeds(matches, actionable) == matches >= 1 /\ actionable

\* frame = context.pages[-1]; elem = frame.locator(...).nth(0)
\* await page.wait_for_timeout(3000); await elem.click(timeout=5000) | elem.fill(text)
\* await page.goto(url, timeout=10000) | await page.mouse.wheel(0, window.innerHeight)
Step ==
  /\ pc = "step"
  /\ LET s == Steps(script)[idx]
         advance == IF idx < Len(Steps(script))
                      THEN pc' = "step" /\ idx' = idx + 1
                      ELSE pc' = "assert" /\ idx' = 1
     IN IF ~NameDefined(s.uses)
          THEN /\ trace' = Append(trace, Ev("step", s.line, "NameError",
                                  [kind |-> s.kind, found |-> FALSE, waited |-> 0]))
               /\ Raise("NameError")
               /\ UNCHANGED viewport
          ELSE \E m \in (IF s.kind \in {"click", "fill"} THEN 0..MaxMatches ELSE {1}),
                  act \in BOOLEAN :
                 LET ok == ActionSucceeds(m, act)
                     waited == IF ok THEN 0 ELSE ActionTimeout(s, defaultTimeout)
                 IN /\ trace' = Append(trace, Ev("step", s.line,
                                       IF ok THEN "ok" ELSE "raise",
                                       [kind |-> s.kind, found |-> m >= 1, waited |-> waited]))
                    /\ IF ok
                         THEN /\ advance
                              /\ viewport' = ViewportAfterStep(s, viewport)
                              /\ UNCHANGED exc
                         ELSE IF Swallows("step")
                                THEN advance /\ UNCHANGED << exc, viewport >>
                                ELSE Raise("step") /\ UNCHANGED viewport
  /\ UNCHANGED << script, locals, created, released, nframes, viewport0, defaultTimeout >>

\* assert <condition>, message    (one statement of the terminal block)
Assertion ==
  /\ pc = "assert"
  /\ LET a == Asserts(script)[idx]
     IN \E raised \in (IF Awaits(a.kind) THEN BOOLEAN ELSE {FALSE}),
           obs \in Observations(a.kind) :
          LET seen == IF a.kind = "viewport" THEN viewport ELSE obs
          IN IF raised
               THEN /\ trace' = Append(trace, Ev("assert", a.line, "raise", a.kind))
                    /\ Raise("probe")
               ELSE IF Holds(a.kind, obs, viewport)
                      THEN /\ trace' = Append(trace, Ev("assert", a.line, "pass", seen))
                           /\ IF idx < Len(Asserts(script))
                                THEN pc' = "assert" /\ idx' = idx + 1
                                ELSE pc' = "sleep" /\ idx' = 0
                           /\ UNCHANGED exc
                      ELSE /\ trace' = Append(trace, Ev("assert", a.line, "fail", seen))
                           /\ Raise("assert")
  /\ UNCHANGED << script, locals, created, released, nframes, viewport, viewport0,
                  defaultTimeout >>

\* await asyncio.sleep(5), then the try body ends normally
Sleep ==
  /\ pc = "sleep"
  /\ trace' = Append(trace, Ev("sleep", 0, "ok", 5))
  /\ pc' = "finally"
  /\ idx' = 1
  /\ UNCHANGED << script, locals, created, released, exc, nframes, viewport, viewport0,
                  defaultTimeout >>

CloseOrigin(r) ==
  CASE r = "context" -> "context.close"
    [] r = "browser" -> "browser.close"
    [] r = "pw"      -> "pw.stop"

\* finally: if context: await context.close()
\*          if browser: await browser.close()
\*          if pw: await pw.stop()
\* A release that raises leaves the finally block at once; the library may or
\* may not have let go of the resource by then.
Cleanup ==
  /\ pc = "finally"
  /\ LET r == CleanupOrder[idx]
         next == IF idx < Len(CleanupOrder)
                   THEN pc' = "finally" /\ idx' = idx + 1
                   ELSE pc' = "done" /\ idx' = 0
     IN IF locals[r] = "None"
          THEN next /\ UNCHANGED << exc, released, trace >>
          ELSE \E ok \in BOOLEAN, rel \in BOOLEAN :
                 /\ ok => rel
                 /\ trace' = Append(trace, Ev("close", 0, IF ok THEN "ok" ELSE "raise", r))
                 /\ released' =
                      IF rel
                        THEN [x \in Resources |->
                                IF x = r \/ (x = "page" /\ r = "context" /\ Held("page"))
                                  THEN released[x] + 1 ELSE released[x]]
                        ELSE released
                 /\ IF ok
                      THEN next /\ UNCHANGED exc
                      ELSE exc' = CloseOrigin(r) /\ pc' = "done" /\ idx' = 0
  /\ UNCHANGED << script, locals, created, nframes, viewport, viewport0, defaultTimeout >>

Next ==
  \/ Start
  \/ Launch
  \/ NewContext
  \/ NewPage
  \/ Goto
  \/ WaitMain
  \/ WaitFrame
  \/ Step
  \/ Assertion
  \/ Sleep
  \/ Cleanup

Spec == Init /\ [][Next]_vars

TypeOK ==
  /\ script \in Scripts
  /\ pc \in {"start", "launch", "new_context", "new_page", "goto", "wait_main",
             "wait_frame", "step", "assert", "sleep", "finally", "done"}
  /\ \A r \in Resources : created[r] \in 0..1 /\ released[r] \in 0..created[r]

\* ------------------------------------------------------------ properties --
Done == pc = "done"
Passed == Done /\ exc = "none"
Failed == Done /\ exc # "none"

Pos == DOMAIN trace

IsClose(e) == e.op = "close"
IsStep(e) == e.op = "step"
IsAssert(e) == e.op = "assert"
IsFrameWait(e) == e.op = "wait_frame"
IsMainWait(e) == e.op = "wait_main"
IsOkStep(e) == e.op = "step" /\ e.out = "ok"

Closes == SelectSeq(trace, IsClose)

Rank(r) == CASE r = "context" -> 1 [] r = "browser" -> 2 [] r = "pw" -> 3

\* the failure that ends the run came from the step sequence or an assertion
BodyFailure == exc \in {"step", "NameError", "assert", "probe"}

C2_CleanupOrder ==
  /\ \A i, j \in DOMAIN Closes : i < j => Rank(Closes[i].obs) < Rank(Closes[j].obs)
  /\ (\E i \in DOMAIN Closes : Closes[i].obs = "browser") => ~Held("context")
  /\ (\E i \in DOMAIN Closes : Closes[i].obs = "pw") => ~Held("browser")
  /\ (Done /\ (exc = "none" \/ BodyFailure)) =>
        /\ Len(Closes) = 3
        /\ Closes[1].obs = "context" /\ Closes[2].obs = "browser" /\ Closes[3].obs = "pw"

C2_Witness ==
  /\ Done /\ exc = "step"
  /\ Len(Closes) = 3
  /\ Closes[1].obs = "context" /\ Closes[2].obs = "browser" /\ Closes[3].obs = "pw"

\* C3: a failure is surfaced to the invoking process only when the context, the
\* browser process and the automation session have all been released.
C3_FailureSurfacedAfterRelease ==
  Failed => \A r \in {"context", "browser", "pw"} : ~Held(r)

InitialGotoFailed == \E i \in Pos : trace[i].op = "goto" /\ trace[i].out = "raise"

\* C4: when the initial navigation fails within its 10000 ms bound, the run is
\* in the failure state and no secondary wait, step or assertion is executed.
C4_InitialNavigationFatal ==
  InitialGotoFailed =>
    /\ exc # "none"
    /\ pc \in {"finally", "done"}
    /\ \A i \in Pos : trace[i].op \notin {"wait_main", "wait_frame", "step", "assert", "sleep"}
    /\ \A i \in Pos : trace[i].op = "goto" => trace[i].obs = 10000

C4_Witness == InitialGotoFailed /\ Done /\ exc = "goto"

TimedOutWait(i) ==
  trace[i].op \in {"wait_main", "wait_frame"} /\ trace[i].out = "raise"

\* C5: a secondary DOM-ready wait that times out is swallowed: the next
\* operation is the next frame wait or the first step, every enumerated frame is
\* waited on before the first step, and a run whose only failures are secondary
\* waits is not in the failure state.
C5_SecondaryWaitSwallowed ==
  /\ \A i \in Pos : TimedOutWait(i) =>
        /\ i = Len(trace) => (exc = "none" /\ pc \in {"wait_frame", "step"})
        /\ i < Len(trace) =>
              \/ trace[i + 1].op = "wait_frame"
              \/ trace[i + 1].op = "step" /\ trace[i + 1].line = Steps(script)[1].line
  /\ (\E i \in Pos : IsStep(trace[i])) =>
        /\ Len(SelectSeq(trace, IsMainWait)) = 1
        /\ Len(SelectSeq(trace, IsFrameWait)) = nframes
  /\ (\A i \in Pos : trace[i].out \in {"ok", "pass"} \/ TimedOutWait(i)) => exc = "none"

C5_Witness ==
  /\ Passed
  /\ \E i \in Pos : trace[i].op = "wait_main" /\ trace[i].out = "raise"
  /\ \E i \in Pos : trace[i].op = "wait_frame" /\ trace[i].out = "raise" /\ trace[i].obs = 1
  /\ Len(SelectSeq(trace, IsFrameWait)) = 2

NoMatchStep(i) ==
  /\ trace[i].op = "step"
  /\ trace[i].obs.kind \in {"click", "fill"}
  /\ trace[i].out # "NameError"
  /\ ~trace[i].obs.found

\* C6: a step whose path matches no element fails after its bounded wait, is
\* followed by nothing but the cleanup block, and no step is attempted twice.
C6_UnmatchedStepAborts ==
  /\ \A i \in Pos : NoMatchStep(i) =>
        /\ trace[i].out = "raise"
        /\ trace[i].obs.waited = 5000
        /\ exc # "none"
        /\ pc \in {"finally", "done"}
        /\ \A j \in Pos : j > i => trace[j].op = "close"
  /\ \A i, j \in Pos :
        (IsStep(trace[i]) /\ IsStep(trace[j]) /\ trace[i].line = trace[j].line) => i = j

C6_Witness ==
  /\ Done
  /\ \E i \in Pos : NoMatchStep(i) /\ i > 1 /\ IsOkStep(trace[i - 1])
                    /\ trace[i].obs.kind = "fill"

\* C7: a TC006 run in which the navigation and every interaction succeed
\* executes every step of the sequence and fails on the final assert False.
C7_TC006EndsOnAssertFalse ==
  (/\ script = "TC006"
   /\ Done
   /\ \A i \in Pos : trace[i].out # "raise") =>
     /\ exc = "assert"
     /\ Len(SelectSeq(trace, IsOkStep)) = Len(TC006Steps)
     /\ \E i \in Pos : trace[i].op = "assert" /\ trace[i].line = 112 /\ trace[i].out = "fail"

\* C8: a TC007 run passes only if all twelve steps succeeded, the animation
\* button reported enabled and its class attribute was present and contained
\* 'active'; assertions are evaluated only after all steps succeeded, and the
\* first failing assertion ends the try body.
C8_TC007PassCondition ==
  script = "TC007" =>
    /\ Passed =>
         /\ \E i \in Pos : /\ trace[i].op = "assert" /\ trace[i].line = 120
                           /\ trace[i].out = "pass" /\ trace[i].obs = TRUE
         /\ \E i \in Pos : /\ trace[i].op = "assert" /\ trace[i].line = 123
                           /\ trace[i].out = "pass" /\ trace[i].obs.present
                           /\ IsSubstring(<< "a", "c", "t", "i", "v", "e" >>, trace[i].obs.value)
    /\ (\E i \in Pos : IsAssert(trace[i])) => Len(SelectSeq(trace, IsOkStep)) = 12
    /\ \A i \in Pos : (IsAssert(trace[i]) /\ trace[i].out # "pass") =>
         /\ exc # "none"
         /\ \A j \in Pos : j > i => trace[j].op = "close"

C8_Witness ==
  /\ script = "TC007" /\ Passed
  /\ \E i \in Pos : /\ trace[i].op = "assert" /\ trace[i].line = 123
                    /\ trace[i].obs = Attr(<< "i", "n" >> \o Active)

LoadProbe(i) ==
  trace[i].op = "assert" /\ trace[i].line = 101 /\ trace[i].out # "raise"

Duration(i) == trace[i].obs.loadEventEnd - trace[i].obs.navigationStart

\* C9: a TC012 run passes only if loadEventEnd - navigationStart was strictly
\* below 3000 ms; a computed duration of 3000 ms or more fails the run.
C9_TC012LoadTimeBelowThreshold ==
  script = "TC012" =>
    /\ Passed => \E i \in Pos : LoadProbe(i) /\ Duration(i) < 3000
    /\ \A i \in Pos : (LoadProbe(i) /\ Duration(i) >= 3000) =>
         trace[i].out = "fail" /\ exc # "none"

C9_Witness ==
  /\ script = "TC012" /\ Done /\ exc = "assert"
  /\ \E i \in Pos : LoadProbe(i) /\ Duration(i) = 3000

====
